---- MODULE Spec2Model ----
(***************************************************************************)
(* engineio-server/src/socket.rs: the per-session Socket.                  *)
(*                                                                         *)
(* The socket owns two tokio mpsc channels (the outbound packet queue,     *)
(* capacity 100, and the pong slot, capacity 1), a Mutex around each       *)
(* receiver and an RwLock around the connection type.  Every async fn of   *)
(* the socket is modelled as a task that moves between its await points;   *)
(* one action is one poll of the task between two await points.            *)
(***************************************************************************)
EXTENDS Integers, Sequences, FiniteSets, TLC

\* ------------------------------------------------------------------ bounds
\* ghost fields of hist: last_id[t] the id of the last packet t enqueued,
\* parked[t] the number of packets dequeued when t was last suspended in
\* tx.send (-1: never), seen[t] whether the consumer lock was acquired since
\* t's send_blocking enqueued, handled the handler invocations, bursts the
\* groups of Pong dispatches with no satisfied heartbeat wait in between,
\* mark the number of Pong dispatches that had reached pong_tx.send when the
\* last Ping of a heartbeat task was enqueued, live whether a Pong dispatch
\* reached pong_tx.send since that Ping while the heartbeat task was waiting
\* with its deadline still ahead.

\* calls the transport/application tasks may issue in one behaviour
MaxOps == 3
\* heartbeat parameters are drawn from 1..MaxInterval and 1..MaxTimeout (ms)
MaxInterval == 2
MaxTimeout == 2
\* how many ms a due interval tick may be overdue while the heartbeat task
\* is suspended in its Ping send or left unpolled
MaxLag == 2
\* packets the consumer may dequeue in the capacity scenario
MaxDrain == 2

\* ------------------------------------------------------- program constants
\* mpsc::channel(100): capacity of the outbound queue
QueueCap == 100
\* mpsc::channel(1): capacity of the pong slot
PongCap == 1

\* ------------------------------------------------------------------- tasks
Procs == {"p1", "p2"}
HBs == {"h1", "h2"}
Consumers == {"c1"}
Tasks == Procs \cup HBs \cup Consumers

Payloads == {"a", "b"}

\* enum ConnectionType
ConnectionType == {"Http", "WebSocket"}

\* enum Packet (crate::packet), the variants the socket names; id is a ghost
\* tag: the position of the packet in the order in which enqueues completed
Packet(kind, data) == [kind |-> kind, data |-> data, id |-> 0]
NoPacket == Packet("None", "")
Packets ==
    {Packet(k, "") : k \in {"Close", "Ping", "Pong", "Noop"}}
        \cup {Packet("Message", d) : d \in Payloads}
        \cup {Packet("Binary", d) : d \in Payloads}

VARIABLES
    conn,       \* Socket.conn: RwLock<ConnectionType>
    tx,         \* the outbound mpsc channel (Socket.tx / the Receiver in Socket.rx)
    rx,         \* Socket.rx: the Mutex around the outbound Receiver
    pong_tx,    \* the pong mpsc channel (Socket.pong_tx / Receiver in Socket.pong_rx)
    pong_rx,    \* Socket.pong_rx: the Mutex around the pong Receiver (its owner)
    pc,         \* where each task is suspended
    op,         \* the async fn each task is running
    arg,        \* the packet a task is sending or dispatching
    result,     \* what the last call of each task returned
    hb,         \* per heartbeat task: interval, timeout, running timers
    ops,        \* ghost: calls issued so far
    hist        \* ghost: per task, facts the claims read

vars == <<conn, tx, rx, pong_tx, pong_rx, pc, op, arg, result, hb, ops, hist>>

None == [flow |-> "None", val |-> "None"]
Ret(flow, val) == [flow |-> flow, val |-> val]

Bool(b) == IF b THEN "true" ELSE "false"

Min(a, b) == IF a < b THEN a ELSE b
Max(a, b) == IF a > b THEN a ELSE b

\* --------------------------------------------- tokio::sync::mpsc (bounded)
\* buf: messages sent and not yet received; waiters: senders suspended in
\* send().await, in arrival order; granted: suspended senders a freed permit
\* was handed to and that have not run yet; closed: Receiver::close() was
\* called; sent / recvd count the messages pushed and popped.
NewChan ==
    [buf |-> <<>>, closed |-> FALSE, waiters |-> <<>>, granted |-> {},
     sent |-> 0, recvd |-> 0]

\* mutant of Permits: one place too many
PermitsOffByOne(ch, cap) == cap + 1 - Len(ch.buf) - Cardinality(ch.granted)

\* the permits of the channel's semaphore that are free
Permits(ch, cap) == cap - Len(ch.buf) - Cardinality(ch.granted)

Without(s, t) == SelectSeq(s, LAMBDA x : x # t)

\* mutant of Push: the message is put at the front of the buffer
PushFront(ch, msg) ==
    [ch EXCEPT !.buf = <<[msg EXCEPT !.id = ch.sent + 1]>> \o @,
               !.sent = @ + 1]

\* a message enters the buffer
Push(ch, msg) ==
    [ch EXCEPT !.buf = Append(@, [msg EXCEPT !.id = ch.sent + 1]),
               !.sent = @ + 1]

\* mutant of ChanSend: the send does not look at the closed flag
ChanSendIgnoresClose(ch, cap, t, msg) ==
    IF Permits(ch, cap) > 0 THEN [ch |-> Push(ch, msg), out |-> "Ok"]
    ELSE [ch |-> [ch EXCEPT !.waiters = Append(@, t)], out |-> "Pending"]

\* first poll of Sender::send(msg).await by task t
ChanSend(ch, cap, t, msg) ==
    IF ch.closed THEN [ch |-> ch, out |-> "Err"]
    ELSE IF Permits(ch, cap) > 0 THEN [ch |-> Push(ch, msg), out |-> "Ok"]
    ELSE [ch |-> [ch EXCEPT !.waiters = Append(@, t)], out |-> "Pending"]

\* a later poll of the same send by the suspended task t
ChanWake(ch, t, msg) ==
    IF ch.closed
    THEN [ch |-> [ch EXCEPT !.waiters = Without(@, t), !.granted = @ \ {t}],
          out |-> "Err"]
    ELSE IF t \in ch.granted
    THEN [ch |-> Push([ch EXCEPT !.granted = @ \ {t}], msg), out |-> "Ok"]
    ELSE [ch |-> ch, out |-> "Pending"]

\* Receiver::recv() with a message ready: pop it and release its permit,
\* which goes to the longest-waiting sender if there is one
ChanRecv(ch) ==
    LET popped == [ch EXCEPT !.buf = Tail(@), !.recvd = @ + 1]
    IN  IF popped.waiters # <<>> /\ ~popped.closed
        THEN [popped EXCEPT !.waiters = Tail(@),
                            !.granted = @ \cup {Head(popped.waiters)}]
        ELSE popped

\* Receiver::close()
ChanClose(ch) == [ch EXCEPT !.closed = TRUE]

\* ------------------------------------------------------ tokio::sync::Mutex
NewLock == [owner |-> "none", waiters |-> <<>>]

\* lock().await: taken at once when free, else the task queues (FIFO)
LockAcquire(m, t) ==
    IF m.owner = "none" THEN [m EXCEPT !.owner = t]
    ELSE [m EXCEPT !.waiters = Append(@, t)]

\* dropping the guard hands the lock to the first waiter
LockRelease(m) ==
    IF m.waiters = <<>> THEN [m EXCEPT !.owner = "none"]
    ELSE [owner |-> Head(m.waiters), waiters |-> Tail(m.waiters)]

\* ghost: every pending flush barrier has seen the lock taken
AllSeen == [t \in Procs \cup HBs |-> TRUE]
SeenAfter(old, new, seen) ==
    IF new.owner # "none" /\ new.owner # old.owner THEN AllSeen ELSE seen

\* ------------------------------------------------------------ Socket::new
NewHb ==
    [interval |-> 0, timeout |-> 0, timer |-> 0, tick |-> 0, elapsed |-> 0,
     pings |-> 0, pongs |-> 0]

new(c) ==
    /\ conn = c
    /\ tx = NewChan
    /\ rx = NewLock
    /\ pong_tx = NewChan
    /\ pong_rx = "none"
    /\ pc = [t \in Procs \cup HBs |-> "idle"]
    /\ op = [t \in Procs \cup HBs |-> "none"]
    /\ arg = [t \in Procs \cup HBs |-> NoPacket]
    /\ result = [t \in Procs \cup HBs |-> None]
    /\ hb = [h \in HBs |-> NewHb]
    /\ ops = 0
    /\ hist = [last_id |-> [t \in Procs \cup HBs |-> 0],
               parked |-> [t \in Procs \cup HBs |-> 0 - 1],
               seen |-> AllSeen,
               handled |-> 0,
               bursts |-> 0,
               fresh |-> TRUE,
               mark |-> 0,
               live |-> FALSE]

Init == \E c \in ConnectionType : new(c)

\* ------------------------------------------------------------ calling a fn
\* A task of the transport layer or of the application calls an async fn of
\* the socket: the future is created, nothing has run yet.
\*   a is the argument: a Packet for send, send_blocking and handle_packet,
\*   the text or the bytes for emit and emit_binary.
Str(d) == Packet("Str", d)
Bytes(d) == Packet("Bytes", d)
Unit == Packet("Unit", "")

Call(p, o, a) ==
    /\ pc[p] = "idle"
    /\ pc' = [pc EXCEPT ![p] = "call"]
    /\ op' = [op EXCEPT ![p] = o]
    /\ arg' = [arg EXCEPT ![p] = a]
    /\ result' = [result EXCEPT ![p] = None]
    /\ ops' = ops + 1
    /\ UNCHANGED <<conn, tx, rx, pong_tx, pong_rx, hb, hist>>

\* mutant of CloseOutcome: the session goes on after a Close
CloseOutcomeContinue(v) == Ret("Continue", v)

\* Close arm: ControlFlow::Break(res)
CloseOutcome(v) == Ret("Break", v)

\* what the caller of Socket::send does with its result
\* (`?` in send_blocking and emit_binary, Break(res) in handle_packet)
SendVal(out) == IF out = "Ok" THEN "Ok" ELSE "Closed"

AfterSend(o, out) ==
    CASE out = "Pending" -> [pc |-> "send_wait", res |-> None]
      [] out # "Pending" /\ o = "send_blocking" /\ out = "Ok" ->
            [pc |-> "sb_conn", res |-> None]
      [] out # "Pending" /\ o = "handle_packet" ->
            [pc |-> "idle", res |-> CloseOutcome(SendVal(out))]
      [] OTHER -> [pc |-> "idle", res |-> Ret("Return", SendVal(out))]

\* ghost: the sends polled on channel ch so far, completed or suspended
Dispatched(ch) == ch.sent + Len(ch.waiters) + Cardinality(ch.granted)

\* the ghost record after task t's send ended with `out` on channel state ch
Sent(t, ch, out) ==
    CASE out = "Ok" ->
            [hist EXCEPT !.last_id[t] = ch.sent,
                         !.seen[t] = (op[t] # "send_blocking"),
                         !.mark = IF t \in HBs THEN Dispatched(pong_tx) ELSE @,
                         !.live = IF t \in HBs THEN FALSE ELSE @]
      [] out = "Pending" -> [hist EXCEPT !.parked[t] = ch.recvd]
      [] OTHER -> hist

\* Socket::send, first poll: self.tx.send(packet).await
send(p, packet) ==
    LET r == ChanSend(tx, QueueCap, p, packet)
        a == AfterSend(op[p], r.out)
    IN  /\ tx' = r.ch
        /\ pc' = [pc EXCEPT ![p] = a.pc]
        /\ result' = [result EXCEPT ![p] = a.res]
        /\ arg' = [arg EXCEPT ![p] = IF r.out = "Pending" THEN packet ELSE NoPacket]
        /\ hist' = Sent(p, r.ch, r.out)
        /\ UNCHANGED <<conn, rx, pong_tx, pong_rx, op, hb, ops>>

\* Socket::send, the poll after the suspended tx.send was woken
send_wake(p) ==
    /\ p \in Procs
    /\ pc[p] = "send_wait"
    /\ LET r == ChanWake(tx, p, arg[p])
           a == AfterSend(op[p], r.out)
       IN  /\ r.out # "Pending"
           /\ tx' = r.ch
           /\ pc' = [pc EXCEPT ![p] = a.pc]
           /\ result' = [result EXCEPT ![p] = a.res]
           /\ arg' = [arg EXCEPT ![p] = NoPacket]
           /\ hist' = Sent(p, r.ch, r.out)
           /\ UNCHANGED <<conn, rx, pong_tx, pong_rx, op, hb, ops>>

\* a direct call of pub(crate) Socket::send
call_send(p) ==
    /\ pc[p] = "call" /\ op[p] = "send"
    /\ send(p, arg[p])

\* Socket::close
close(p) ==
    /\ pc[p] = "call" /\ op[p] = "close"
    /\ send(p, Packet("Close", ""))

\* Socket::emit
emit(p) ==
    /\ pc[p] = "call" /\ op[p] = "emit"
    /\ send(p, Packet("Message", arg[p].data))

\* Socket::emit_binary
emit_binary(p) ==
    /\ pc[p] = "call" /\ op[p] = "emit_binary"
    /\ send(p, Packet("Binary", arg[p].data))

\* Socket::send_blocking, first poll: self.send(packet).await?
send_blocking(p) ==
    /\ pc[p] = "call" /\ op[p] = "send_blocking"
    /\ send(p, arg[p])

\* mutants of NeedsBarrier: the barrier is never taken / always taken
NoBarrier(c) == FALSE
AlwaysBarrier(c) == TRUE

\* does send_blocking go through the consumer lock?
NeedsBarrier(c) == c = "Http"

\* Socket::send_blocking after the send: self.conn.read().await is compared
\* with Http; the read guard is dropped before the lock is asked for
sb_conn(p) ==
    /\ pc[p] = "sb_conn"
    /\ IF NeedsBarrier(conn)
       THEN /\ pc' = [pc EXCEPT ![p] = "sb_try"]
            /\ UNCHANGED result
       ELSE /\ pc' = [pc EXCEPT ![p] = "idle"]
            /\ result' = [result EXCEPT ![p] = Ret("Return", "Ok")]
    /\ UNCHANGED <<conn, tx, rx, pong_tx, pong_rx, op, arg, hb, ops, hist>>

\* Socket::send_blocking on Http: self.rx.lock().await; a free lock is taken
\* and the guard dropped at once (`let _ = ...`), else the task queues
sb_try(p) ==
    /\ pc[p] = "sb_try"
    /\ IF rx.owner # "none"
       THEN /\ rx' = LockAcquire(rx, p)
            /\ pc' = [pc EXCEPT ![p] = "sb_lock"]
            /\ UNCHANGED <<result, hist>>
       ELSE /\ pc' = [pc EXCEPT ![p] = "idle"]
            /\ result' = [result EXCEPT ![p] = Ret("Return", "Ok")]
            /\ hist' = [hist EXCEPT !.seen = AllSeen]
            /\ UNCHANGED rx
    /\ UNCHANGED <<conn, tx, pong_tx, pong_rx, op, arg, hb, ops>>

\* Socket::send_blocking: the lock was handed to the task; the guard is dropped
sb_lock(p) ==
    /\ pc[p] = "sb_lock"
    /\ rx.owner = p
    /\ rx' = LockRelease(rx)
    /\ pc' = [pc EXCEPT ![p] = "idle"]
    /\ result' = [result EXCEPT ![p] = Ret("Return", "Ok")]
    /\ hist' = [hist EXCEPT !.seen = SeenAfter(rx, rx', @)]
    /\ UNCHANGED <<conn, tx, pong_tx, pong_rx, op, arg, hb, ops>>

\* the handler capability (crate::layer::EngineIoHandler::handle): external,
\* it returns Ok or an application error
HandlerResults == {"Ok", "AppError"}

\* the handler passed to handle_packet: an application handler that accepts
\* the message "a" and answers every other message with an error
Handle(msg) == IF msg = "a" THEN "Ok" ELSE "AppError"

\* mutant of HandlerOutcome: an error of the handler ends the session
HandlerOutcomeBreak(r) ==
    IF r = "Ok" THEN Ret("Continue", "Ok") ELSE Ret("Break", r)

\* Message arm: Ok(_) => Continue(Ok(())), Err(e) => Continue(Err(e))
HandlerOutcome(r) == Ret("Continue", r)

\* mutant of BadPacket: a packet that is not accepted ends the session
BadPacketBreak == Ret("Break", "BadPacket")

\* the arm for every other packet kind
BadPacket == Ret("Continue", "BadPacket")

\* Socket::handle_packet
handle_packet(p) ==
    /\ pc[p] = "call" /\ op[p] = "handle_packet"
    /\ CASE arg[p].kind = "Close" -> send(p, Packet("Noop", ""))
         [] arg[p].kind = "Pong" ->
              LET r == ChanSend(pong_tx, PongCap, p, Unit)
              IN  /\ pong_tx' = r.ch
                  /\ pc' = [pc EXCEPT ![p] =
                              IF r.out = "Pending" THEN "pong_wait" ELSE "idle"]
                  /\ result' = [result EXCEPT ![p] =
                              CASE r.out = "Ok" -> Ret("Continue", "Ok")
                                [] r.out = "Err" -> Ret("Panic", "unwrap")
                                [] OTHER -> None]
                  /\ arg' = [arg EXCEPT ![p] = IF r.out = "Pending" THEN @ ELSE NoPacket]
                  /\ hist' = [hist EXCEPT !.bursts = IF hist.fresh THEN @ + 1 ELSE @,
                                          !.fresh = FALSE,
                                          !.live = @ \/ \E h \in HBs :
                                                      pc[h] = "recv" /\ hb[h].timer > 0]
                  /\ UNCHANGED <<conn, tx, rx, pong_rx, op, hb, ops>>
         [] arg[p].kind = "Message" ->
              /\ pc' = [pc EXCEPT ![p] = "idle"]
              /\ result' = [result EXCEPT ![p] = HandlerOutcome(Handle(arg[p].data))]
              /\ arg' = [arg EXCEPT ![p] = NoPacket]
              /\ hist' = [hist EXCEPT !.handled = @ + 1]
              /\ UNCHANGED <<conn, tx, rx, pong_tx, pong_rx, op, hb, ops>>
         [] OTHER ->
              /\ pc' = [pc EXCEPT ![p] = "idle"]
              /\ result' = [result EXCEPT ![p] = BadPacket]
              /\ arg' = [arg EXCEPT ![p] = NoPacket]
              /\ UNCHANGED <<conn, tx, rx, pong_tx, pong_rx, op, hb, ops, hist>>

\* Socket::handle_packet, Pong arm: the suspended pong_tx.send was woken
pong_wake(p) ==
    /\ pc[p] = "pong_wait"
    /\ LET r == ChanWake(pong_tx, p, Unit)
       IN  /\ r.out # "Pending"
           /\ pong_tx' = r.ch
           /\ pc' = [pc EXCEPT ![p] = "idle"]
           /\ result' = [result EXCEPT ![p] =
                           IF r.out = "Ok" THEN Ret("Continue", "Ok")
                           ELSE Ret("Panic", "unwrap")]
           /\ arg' = [arg EXCEPT ![p] = NoPacket]
           /\ UNCHANGED <<conn, tx, rx, pong_rx, op, hb, ops, hist>>

\* Socket::is_ws
is_ws(p) ==
    /\ pc[p] = "call" /\ op[p] = "is_ws"
    /\ pc' = [pc EXCEPT ![p] = "idle"]
    /\ result' = [result EXCEPT ![p] = Ret("Return", Bool(conn = "WebSocket"))]
    /\ UNCHANGED <<conn, tx, rx, pong_tx, pong_rx, op, arg, hb, ops, hist>>

\* Socket::is_http
is_http(p) ==
    /\ pc[p] = "call" /\ op[p] = "is_http"
    /\ pc' = [pc EXCEPT ![p] = "idle"]
    /\ result' = [result EXCEPT ![p] = Ret("Return", Bool(conn = "Http"))]
    /\ UNCHANGED <<conn, tx, rx, pong_tx, pong_rx, op, arg, hb, ops, hist>>

\* mutant of Upgraded: the connection type is flipped
Toggled(c) == IF c = "Http" THEN "WebSocket" ELSE "Http"

\* the value upgrade_to_websocket stores
Upgraded(c) == "WebSocket"

\* Socket::upgrade_to_websocket
upgrade_to_websocket(p) ==
    /\ pc[p] = "call" /\ op[p] = "upgrade_to_websocket"
    /\ conn' = Upgraded(conn)
    /\ pc' = [pc EXCEPT ![p] = "idle"]
    /\ result' = [result EXCEPT ![p] = Ret("Return", "Unit")]
    /\ UNCHANGED <<tx, rx, pong_tx, pong_rx, op, arg, hb, ops, hist>>

\* ------------------------------------------------- Socket::spawn_heartbeat
\* Time is counted in milliseconds.  hb[h].timer is what is left of the
\* running sleep or timeout, hb[h].tick what is left until the interval's
\* next tick (negative: the tick is overdue; the next deadline is one period
\* after this one, however late the tick is taken), hb[h].elapsed the time since
\* the task started (ghost, it stops counting at interval + timeout).

\* mutant of TryLock: the claim succeeds whoever owns the lock
TryLockAlways(owner) == TRUE

\* pong_rx.try_lock(): does the claim succeed?
TryLock(owner) == owner = "none"

\* first poll: claim pong_rx or panic, then sleep(interval)
spawn_heartbeat(h, interval, timeout) ==
    /\ pc[h] = "idle"
    /\ op' = [op EXCEPT ![h] = "spawn_heartbeat"]
    /\ IF TryLock(pong_rx)
       THEN /\ pong_rx' = h
            /\ pc' = [pc EXCEPT ![h] = "sleep"]
            /\ hb' = [hb EXCEPT ![h] = [NewHb EXCEPT !.interval = interval,
                                                    !.timeout = timeout,
                                                    !.timer = interval]]
            /\ UNCHANGED result
       ELSE /\ pc' = [pc EXCEPT ![h] = "panicked"]
            /\ result' = [result EXCEPT ![h] = Ret("Panic", "expect")]
            /\ UNCHANGED <<pong_rx, hb>>
    /\ UNCHANGED <<conn, tx, rx, pong_tx, arg, ops, hist>>

\* the sleep is over: tokio::time::interval(interval) is created, its first
\* tick is due at once
hb_sleep(h) ==
    /\ pc[h] = "sleep"
    /\ hb[h].timer = 0
    /\ pc' = [pc EXCEPT ![h] = "tick"]
    /\ hb' = [hb EXCEPT ![h].tick = 0]
    /\ UNCHANGED <<conn, tx, rx, pong_tx, pong_rx, op, arg, result, ops, hist>>

\* mutant of HbFail: the error of the round is dropped and the loop goes on
HbFailGoesOn(h) ==
    /\ pc' = [pc EXCEPT ![h] = "tick"]
    /\ UNCHANGED <<result, pong_rx, hb>>

\* mutant of HbFail: the error of the failed step is returned as it is
HbFailSendError(h) ==
    /\ pc' = [pc EXCEPT ![h] = "done"]
    /\ result' = [result EXCEPT ![h] = Ret("Return", "Closed")]
    /\ pong_rx' = "none"
    /\ hb' = [hb EXCEPT ![h].timer = 0, ![h].tick = 0]

\* the heartbeat task ends with Err(HeartbeatTimeout); its guard on pong_rx
\* and its timers are dropped
HbFail(h) ==
    /\ pc' = [pc EXCEPT ![h] = "done"]
    /\ result' = [result EXCEPT ![h] = Ret("Return", "HeartbeatTimeout")]
    /\ pong_rx' = "none"
    /\ hb' = [hb EXCEPT ![h].timer = 0, ![h].tick = 0]

\* mutant of HbPinged: the round does not wait for the pong signal
HbPingedNoWait(h, d) ==
    /\ pc' = [pc EXCEPT ![h] = "tick"]
    /\ hb' = [hb EXCEPT ![h].tick = d, ![h].pings = @ + 1]
    /\ UNCHANGED <<result, pong_rx>>

\* mutant of HbPinged: the wait for the pong is not given its timeout
HbPingedNoTimeout(h, d) ==
    /\ pc' = [pc EXCEPT ![h] = "recv"]
    /\ hb' = [hb EXCEPT ![h].timer = 0, ![h].tick = d, ![h].pings = @ + 1]
    /\ UNCHANGED <<result, pong_rx>>

\* the Ping was enqueued: the timeout around pong_rx.recv() starts
HbPinged(h, d) ==
    /\ pc' = [pc EXCEPT ![h] = "recv"]
    /\ hb' = [hb EXCEPT ![h].timer = hb[h].timeout,
                        ![h].tick = d,
                        ![h].pings = @ + 1]
    /\ UNCHANGED <<result, pong_rx>>

\* interval.tick() completes (the next tick is one period after this one's
\* deadline) and self.send(Packet::Ping) is polled
hb_tick(h) ==
    /\ pc[h] = "tick"
    /\ hb[h].tick <= 0
    /\ LET r == ChanSend(tx, QueueCap, h, Packet("Ping", ""))
           d == hb[h].tick + hb[h].interval
       IN  /\ tx' = r.ch
           /\ hist' = Sent(h, r.ch, r.out)
           /\ CASE r.out = "Ok" -> HbPinged(h, d)
                [] r.out = "Err" -> HbFail(h)
                [] OTHER -> /\ pc' = [pc EXCEPT ![h] = "send_wait"]
                            /\ hb' = [hb EXCEPT ![h].tick = d]
                            /\ UNCHANGED <<result, pong_rx>>
    /\ UNCHANGED <<conn, rx, pong_tx, op, arg, ops>>

\* the suspended send of the Ping was woken
hb_send_wake(h) ==
    /\ pc[h] = "send_wait"
    /\ LET r == ChanWake(tx, h, Packet("Ping", ""))
       IN  /\ r.out # "Pending"
           /\ tx' = r.ch
           /\ hist' = Sent(h, r.ch, r.out)
           /\ IF r.out = "Ok" THEN HbPinged(h, hb[h].tick)
              ELSE HbFail(h)
    /\ UNCHANGED <<conn, rx, pong_tx, op, arg, ops>>

\* pong_rx.recv() has a signal: the round is over, back to interval.tick()
hb_recv(h) ==
    /\ pc[h] = "recv"
    /\ pong_tx.buf # <<>>
    /\ pong_tx' = ChanRecv(pong_tx)
    /\ pc' = [pc EXCEPT ![h] = "tick"]
    /\ hb' = [hb EXCEPT ![h].pongs = @ + 1, ![h].timer = 0]
    /\ hist' = [hist EXCEPT !.fresh = TRUE]
    /\ UNCHANGED <<conn, tx, rx, pong_rx, op, arg, result, ops>>

\* no signal and the timeout elapsed (or recv() returned None: the slot is
\* closed and empty)
hb_timeout(h) ==
    /\ pc[h] = "recv"
    /\ pong_tx.buf = <<>>
    /\ hb[h].timer = 0 \/ pong_tx.closed
    /\ HbFail(h)
    /\ UNCHANGED <<conn, tx, rx, pong_tx, op, arg, ops, hist>>

\* one millisecond passes
Running(h) == pc[h] \in {"sleep", "tick", "send_wait", "recv"}

Advance(h) ==
    IF ~Running(h) THEN hb[h]
    ELSE [hb[h] EXCEPT
            !.elapsed = Min(@ + 1, hb[h].interval + hb[h].timeout),
            !.timer = IF pc[h] \in {"sleep", "recv"} THEN Max(@ - 1, 0) ELSE @,
            !.tick = IF pc[h] = "sleep" THEN @ ELSE @ - 1]

\* the task is suspended in the Ping send or is left unpolled although its
\* tick is due or its wait is over
Late(h) ==
    \/ pc[h] = "send_wait"
    \/ pc[h] = "tick" /\ hb[h].tick <= 0
    \/ pc[h] = "recv" /\ hb[h].timer = 0

\* time passes while no such task has its tick overdue by MaxLag
Tick ==
    /\ \A h \in HBs : Late(h) => hb[h].tick > 0 - MaxLag
    /\ hb' = [h \in HBs |-> Advance(h)]
    /\ hb' # hb
    /\ UNCHANGED <<conn, tx, rx, pong_tx, pong_rx, pc, op, arg, result, ops, hist>>

\* ------------------------------------------- the consumer of the queue
\* The transport's flush loop: it locks Socket.rx, receives, may close the
\* receiver, and drops the guard.
consumer_lock(c) ==
    /\ rx.owner # c
    /\ \A i \in 1..Len(rx.waiters) : rx.waiters[i] # c
    /\ rx' = LockAcquire(rx, c)
    /\ hist' = [hist EXCEPT !.seen = SeenAfter(rx, rx', @)]
    /\ UNCHANGED <<conn, tx, pong_tx, pong_rx, pc, op, arg, result, hb, ops>>

consumer_recv(c) ==
    /\ rx.owner = c
    /\ tx.buf # <<>>
    /\ tx' = ChanRecv(tx)
    /\ UNCHANGED <<conn, rx, pong_tx, pong_rx, pc, op, arg, result, hb, ops, hist>>

consumer_close(c) ==
    /\ rx.owner = c
    /\ ~tx.closed
    /\ tx' = ChanClose(tx)
    /\ UNCHANGED <<conn, rx, pong_tx, pong_rx, pc, op, arg, result, hb, ops, hist>>

consumer_unlock(c) ==
    /\ rx.owner = c
    /\ rx' = LockRelease(rx)
    /\ hist' = [hist EXCEPT !.seen = SeenAfter(rx, rx', @)]
    /\ UNCHANGED <<conn, tx, pong_tx, pong_rx, pc, op, arg, result, hb, ops>>

\* ---------------------------------------------------------- specifications
Issue(p, calls, budget) ==
    /\ ops < budget
    /\ \E c \in calls : Call(p, c[1], c[2])

\* a task starts the heartbeat with some interval and timeout
Spawn(h) ==
    \E i \in 1..MaxInterval, t \in 1..MaxTimeout : spawn_heartbeat(h, i, t)

\* Spec: the send path.  Two tasks call the sending functions, the Close and
\* Message dispatch and the connection-type functions; one consumer locks,
\* drains and closes the queue.
SendCalls ==
    {<<"send", Packet("Noop", "")>>, <<"close", NoPacket>>,
     <<"emit", Str("a")>>, <<"emit_binary", Bytes("b")>>,
     <<"send_blocking", Packet("Message", "a")>>,
     <<"handle_packet", Packet("Close", "")>>,
     <<"handle_packet", Packet("Message", "a")>>,
     <<"handle_packet", Packet("Ping", "")>>,
     <<"is_ws", NoPacket>>, <<"is_http", NoPacket>>,
     <<"upgrade_to_websocket", NoPacket>>}

IssueSend(p) == Issue(p, SendCalls, MaxOps)

SendNext(p) ==
    \/ IssueSend(p)
    \/ call_send(p)
    \/ close(p)
    \/ emit(p)
    \/ emit_binary(p)
    \/ send_blocking(p)
    \/ sb_conn(p)
    \/ sb_try(p)
    \/ sb_lock(p)
    \/ handle_packet(p)
    \/ is_ws(p)
    \/ is_http(p)
    \/ upgrade_to_websocket(p)

ConsumerNext(c) ==
    \/ consumer_lock(c)
    \/ consumer_recv(c)
    \/ consumer_close(c)
    \/ consumer_unlock(c)

Next ==
    \/ \E p \in Procs : SendNext(p)
    \/ \E c \in Consumers : ConsumerNext(c)

Spec == Init /\ [][Next]_vars

\* FairBarrier: the flush barrier.  Two tasks call send_blocking and
\* upgrade_to_websocket, the consumer takes and drops the lock and drains.
\* The runtime polls a task that can make progress; nothing makes the
\* consumer or the callers act.
BarrierCalls ==
    {<<"send_blocking", Packet("Message", "a")>>,
     <<"upgrade_to_websocket", NoPacket>>}

IssueBarrier(p) == Issue(p, BarrierCalls, MaxOps)

BarrierStep(p) ==
    \/ send_blocking(p)
    \/ sb_conn(p)
    \/ sb_try(p)
    \/ sb_lock(p)
    \/ upgrade_to_websocket(p)

NextBarrier ==
    \/ \E p \in Procs : IssueBarrier(p) \/ BarrierStep(p)
    \/ \E c \in Consumers : consumer_lock(c) \/ consumer_recv(c) \/ consumer_unlock(c)

FairBarrier ==
    /\ Init
    /\ [][NextBarrier]_vars
    /\ \A p \in Procs : WF_vars(BarrierStep(p))

\* SpecHB: the heartbeat.  Two tasks dispatch Pong packets, one task runs
\* spawn_heartbeat, time passes, the consumer drains and may close the queue.
HbCalls == {<<"handle_packet", Packet("Pong", "")>>}

IssueHb(p) == Issue(p, HbCalls, MaxOps)

PongNext(p) ==
    \/ IssueHb(p)
    \/ handle_packet(p)
    \/ pong_wake(p)

HbNext(h) ==
    \/ Spawn(h)
    \/ hb_sleep(h)
    \/ hb_tick(h)
    \/ hb_recv(h)
    \/ hb_timeout(h)

NextHB ==
    \/ \E p \in Procs : PongNext(p)
    \/ HbNext("h1")
    \/ \E c \in Consumers : consumer_lock(c) \/ consumer_recv(c) \/ consumer_close(c)
    \/ Tick

SpecHB == Init /\ [][NextHB]_vars

\* SpecHB2: two tasks call spawn_heartbeat on the same socket while one
\* task dispatches Pongs.
NextHB2 ==
    \/ PongNext("p1")
    \/ \E h \in HBs : HbNext(h)
    \/ Tick

SpecHB2 == Init /\ [][NextHB2]_vars

\* SpecFill: the capacity of the queue.  The tasks emit one message after
\* the other; the consumer dequeues at most MaxDrain packets.
FillCalls == {<<"emit", Str("a")>>}

IssueFill(p) == Issue(p, FillCalls, QueueCap + MaxDrain)

Drain(c) == tx.recvd < MaxDrain /\ consumer_recv(c)

NextFill ==
    \/ \E p \in Procs : IssueFill(p) \/ emit(p) \/ send_wake(p)
    \/ \E c \in Consumers : consumer_lock(c) \/ Drain(c)

SpecFill == Init /\ [][NextFill]_vars

\* SpecOrder: the producers of the queue together.  Two tasks call send,
\* emit, emit_binary, close and dispatch Close, a heartbeat task sends its
\* Ping, the consumer drains.
OrderCalls ==
    {<<"send", Packet("Noop", "")>>, <<"close", NoPacket>>,
     <<"emit", Str("a")>>, <<"emit_binary", Bytes("b")>>,
     <<"handle_packet", Packet("Close", "")>>}

IssueOrder(p) == Issue(p, OrderCalls, MaxOps - 1)

\* the timing of the heartbeat plays no part in the order of the queue
SpawnShort(h) == spawn_heartbeat(h, 1, 1)

NextOrder ==
    \/ \E p \in Procs :
          \/ IssueOrder(p)
          \/ call_send(p)
          \/ close(p)
          \/ emit(p)
          \/ emit_binary(p)
          \/ handle_packet(p)
    \/ SpawnShort("h1") \/ hb_sleep("h1") \/ hb_tick("h1") \/ hb_timeout("h1")
    \/ \E c \in Consumers : consumer_lock(c) \/ consumer_recv(c)
    \/ Tick

SpecOrder == Init /\ [][NextOrder]_vars

\* SpecDispatch: the dispatch of inbound packets.  Two tasks dispatch
\* packets of every kind but Pong and emit messages; the consumer drains the
\* queue and may close it.
DispatchCalls ==
    {<<"handle_packet", Packet("Close", "")>>,
     <<"handle_packet", Packet("Message", "a")>>,
     <<"handle_packet", Packet("Message", "b")>>,
     <<"handle_packet", Packet("Ping", "")>>,
     <<"handle_packet", Packet("Noop", "")>>,
     <<"handle_packet", Packet("Binary", "a")>>,
     <<"emit", Str("a")>>}

IssueDispatch(p) == Issue(p, DispatchCalls, MaxOps)

NextDispatch ==
    \/ \E p \in Procs : IssueDispatch(p) \/ handle_packet(p) \/ emit(p)
    \/ \E c \in Consumers : consumer_lock(c) \/ consumer_recv(c) \/ consumer_close(c)

SpecDispatch == Init /\ [][NextDispatch]_vars

\* FairHB: the heartbeat when no Pong is ever dispatched.  The queue starts
\* empty, one short of full or full (n emits completed before the task
\* starts); the consumer may drain it, close it or do nothing.
\* the queue after n emits completed and nothing was dequeued
Emitted(n) ==
    [NewChan EXCEPT
        !.buf = [i \in 1..n |-> [Packet("Message", "a") EXCEPT !.id = i]],
        !.sent = n]

InitFilled ==
    \E c \in ConnectionType, n \in {0, QueueCap - 1, QueueCap} :
        /\ tx = Emitted(n)
        /\ rx = NewLock
        /\ conn = c
        /\ pong_tx = NewChan
        /\ pong_rx = "none"
        /\ pc = [t \in Procs \cup HBs |-> "idle"]
        /\ op = [t \in Procs \cup HBs |-> "none"]
        /\ arg = [t \in Procs \cup HBs |-> NoPacket]
        /\ result = [t \in Procs \cup HBs |-> None]
        /\ hb = [h \in HBs |-> NewHb]
        /\ ops = n
        /\ hist = [last_id |-> [t \in Procs \cup HBs |-> IF t = "p1" THEN n ELSE 0],
                   parked |-> [t \in Procs \cup HBs |-> 0 - 1],
                   seen |-> AllSeen, handled |-> 0, bursts |-> 0, fresh |-> TRUE,
                   mark |-> 0, live |-> FALSE]

HbStep(h) ==
    \/ hb_sleep(h)
    \/ hb_tick(h)
    \/ hb_send_wake(h)
    \/ hb_timeout(h)

NextNoPong ==
    \/ Spawn("h1")
    \/ HbStep("h1")
    \/ \E c \in Consumers : consumer_lock(c) \/ Drain(c) \/ consumer_close(c)
    \/ Tick

FairHB ==
    /\ InitFilled
    /\ [][NextNoPong]_vars
    /\ WF_vars(HbStep("h1"))
    /\ WF_vars(Tick)

\* SpecClosed: sending on a queue whose receiver is closed.  The queue
\* starts empty, one short of full or full; two tasks call the sending
\* functions; the consumer takes the lock, keeps it and may close the
\* receiver; nothing is dequeued.
ClosedCalls ==
    {<<"send", Packet("Noop", "")>>, <<"close", NoPacket>>,
     <<"emit", Str("a")>>, <<"emit_binary", Bytes("b")>>,
     <<"send_blocking", Packet("Message", "a")>>}

IssueClosed(p) ==
    Issue(p, ClosedCalls,
          IF ops < QueueCap - 1 THEN MaxOps ELSE QueueCap + MaxOps - 1)

NextClosed ==
    \/ \E p \in Procs :
          \/ IssueClosed(p)
          \/ call_send(p)
          \/ close(p)
          \/ emit(p)
          \/ emit_binary(p)
          \/ send_blocking(p)
          \/ sb_conn(p)
          \/ sb_try(p)
          \/ send_wake(p)
    \/ \E c \in Consumers : consumer_lock(c) \/ consumer_close(c)

SpecClosed == InitFilled /\ [][NextClosed]_vars

\* FairUpgrade: the flush barrier across the upgrade.  The socket starts as
\* Http with no polling request attached; two tasks call send_blocking and
\* upgrade_to_websocket; once the socket is WebSocket the writer task locks
\* the receiver, keeps the lock and drains the queue.  The lock is never
\* released, so the hand-over of the lock to a queued send_blocking is not
\* a step of this specification.  The runtime polls a task that can make
\* progress, the writer included.
InitHttp == new("Http")

UpgradeStep(p) ==
    \/ send_blocking(p)
    \/ sb_conn(p)
    \/ sb_try(p)
    \/ upgrade_to_websocket(p)

WriterStep(c) ==
    \/ conn = "WebSocket" /\ consumer_lock(c)
    \/ consumer_recv(c)

NextUpgrade ==
    \/ \E p \in Procs : IssueBarrier(p) \/ UpgradeStep(p)
    \/ \E c \in Consumers : WriterStep(c)

FairUpgrade ==
    /\ InitHttp
    /\ [][NextUpgrade]_vars
    /\ \A p \in Procs : WF_vars(UpgradeStep(p))
    /\ \A c \in Consumers : WF_vars(WriterStep(c))

\* ------------------------------------------------------------------ claims
HeartbeatTimeout == Ret("Return", "HeartbeatTimeout")

\* C1 as stated: with no Pong ever dispatched, a started heartbeat task
\* eventually returns HeartbeatTimeout whatever the consumer of the queue
\* does, and not before interval + timeout have passed since it started.
C1_Original ==
    \A h \in HBs :
        Running(h) ~>
            /\ pc[h] = "done"
            /\ result[h] = HeartbeatTimeout
            /\ hb[h].elapsed >= hb[h].interval + hb[h].timeout

\* C1 amended: with no Pong ever dispatched, a started heartbeat task
\* returns HeartbeatTimeout unless its Ping send stays suspended for ever on
\* a full queue; it returns no earlier than interval + timeout after its
\* start when its Ping was enqueued, and no earlier than interval when the
\* Ping send failed on a closed queue.
C1_Amended ==
    /\ [](\A h \in HBs :
            pc[h] = "done" =>
                /\ result[h] = HeartbeatTimeout
                /\ hb[h].elapsed >=
                     hb[h].interval + (IF hb[h].pings > 0 THEN hb[h].timeout ELSE 0))
    /\ \A h \in HBs :
            Running(h) ~> (pc[h] = "done" \/ [](pc[h] = "send_wait"))

\* C1 witness: the task timed out waiting for the pong of its only Ping,
\* enqueued behind a queue that had been filled to its last or last but one
\* place
C1_Witness ==
    /\ pc["h1"] = "done"
    /\ result["h1"] = HeartbeatTimeout
    /\ hb["h1"].pings = 1
    /\ hb["h1"].elapsed = hb["h1"].interval + hb["h1"].timeout
    /\ tx.sent = QueueCap + 1
    /\ ~tx.closed

\* C2 as stated: dispatching a Pong never suspends the caller, also when
\* the pong slot already holds an unconsumed signal and when no heartbeat
\* task is running, and it does not abort.
C2_PongNeverSuspends ==
    \A p \in Procs : pc[p] # "pong_wait" /\ result[p].flow # "Panic"

\* pong waits of heartbeat tasks that were satisfied
PongsConsumed == hb["h1"].pongs + hb["h2"].pongs

\* C3 as stated: consecutive Pong dispatches with no heartbeat wait in
\* between behave like one dispatch: none fails, and since extra signals
\* are not queued each such group (hist.bursts counts them) satisfies at
\* most one heartbeat wait.
C3_PongsCoalesce ==
    /\ \A p \in Procs : result[p].flow # "Panic"
    /\ PongsConsumed <= hist.bursts

\* task p's call of o returns in this step
Returned(p, o) == pc[p] # "idle" /\ pc'[p] = "idle" /\ op[p] = o

Ok == Ret("Return", "Ok")

\* C4 as stated: on an Http socket, when send_blocking returns Ok the packet
\* it enqueued has already been taken out of the queue by a consumer.
C4_SentBeforeReturn ==
    [][\A p \in Procs :
          Returned(p, "send_blocking") /\ result'[p] = Ok /\ conn' = "Http"
              => tx'.recvd >= hist'.last_id[p]]_vars

\* C5: on an Http socket, send_blocking returns only after the consumer
\* lock was acquired at least once after its enqueue, and never while
\* another task holds that lock.
C5_BarrierAcquired ==
    [][\A p \in Procs :
          Returned(p, "send_blocking") /\ result'[p] = Ok /\ conn' = "Http"
              => hist'.seen[p] /\ rx.owner \in {"none", p}]_vars

\* C5 witness: on an Http socket a send_blocking that enqueued its packet is
\* suspended behind the consumer, which holds the lock
C5_Witness ==
    /\ conn = "Http"
    /\ pc["p1"] = "sb_lock"
    /\ rx.owner = "c1"
    /\ rx.waiters = <<"p1">>
    /\ hist.last_id["p1"] > tx.recvd

\* C6: on a WebSocket socket, send_blocking returns Ok right after its
\* enqueue without touching the consumer lock, and it always returns, also
\* when no consumer runs or the lock is held for ever.
C6_WsNoBarrier ==
    /\ [][\A p \in Procs :
            pc[p] = "sb_conn" /\ conn = "WebSocket" /\ pc'[p] # pc[p]
                => pc'[p] = "idle" /\ result'[p] = Ok /\ rx' = rx /\ tx' = tx]_vars
    /\ \A p \in Procs :
            (op[p] = "send_blocking" /\ pc[p] \in {"call", "sb_conn"}
                /\ conn = "WebSocket") ~> (pc[p] = "idle")

\* C6 witness: the only call so far, a send_blocking on a WebSocket socket,
\* returned Ok while the consumer holds the lock (taken before the enqueue
\* and not since) and nothing was dequeued
C6_Witness ==
    /\ conn = "WebSocket"
    /\ ops = 1
    /\ op["p1"] = "send_blocking" /\ pc["p1"] = "idle" /\ result["p1"] = Ok
    /\ rx.owner = "c1" /\ ~hist.seen["p1"]
    /\ tx.recvd = 0 /\ Len(tx.buf) = 1

\* C7: the queue never holds more than 100 packets; on a queue nothing was
\* dequeued from, a send finding fewer than 100 packets completes without
\* suspending; a send finding 100 packets suspends and adds nothing; a
\* suspended send completes only after a dequeue that followed its
\* suspension, and the only suspended send can complete as soon as a
\* dequeue has left fewer than 100 packets.
C7_Capacity ==
    /\ [](Len(tx.buf) <= QueueCap)
    /\ [][\A p \in Procs :
            /\ pc[p] = "call" /\ pc'[p] # "call" /\ tx.recvd = 0
                    /\ Len(tx.buf) < QueueCap
                => /\ pc'[p] = "idle" /\ result'[p] = Ok
                   /\ Len(tx'.buf) = Len(tx.buf) + 1
            /\ pc[p] = "call" /\ pc'[p] # "call" /\ Len(tx.buf) = QueueCap
                => pc'[p] = "send_wait" /\ tx'.buf = tx.buf
            /\ pc[p] = "send_wait" /\ pc'[p] # "send_wait"
                => /\ tx.recvd > hist.parked[p]
                   /\ pc'[p] = "idle" /\ result'[p] = Ok
                   /\ Len(tx'.buf) = Len(tx.buf) + 1]_vars
    /\ [](\A p \in Procs :
            (/\ pc[p] = "send_wait"
             /\ Len(tx.buf) < QueueCap
             /\ (\A q \in Procs \ {p} : pc[q] # "send_wait"))
            => ENABLED send_wake(p))

\* C7 witness: the 101st packet was enqueued by a send that suspended on
\* the full, undrained queue and completed after one dequeue
C7_Witness ==
    /\ hist.parked["p1"] = 0
    /\ pc["p1"] = "idle" /\ result["p1"] = Ok
    /\ hist.last_id["p1"] = QueueCap + 1
    /\ tx.recvd = 1
    /\ Len(tx.buf) = QueueCap

\* the packet a call of o with argument a hands to Socket::send
Outbound(o, a) ==
    CASE o = "emit" -> Packet("Message", a.data)
      [] o = "emit_binary" -> Packet("Binary", a.data)
      [] o = "close" -> Packet("Close", "")
      [] o = "handle_packet" -> Packet("Noop", "")
      [] o = "spawn_heartbeat" -> Packet("Ping", "")
      [] OTHER -> a

\* C8: the queue holds the packets in the order their enqueues completed:
\* the ids in the queue are consecutive and follow the last id dequeued;
\* a completed enqueue appends exactly the caller's packet with the next id;
\* a dequeue removes exactly the oldest packet.
C8_Order ==
    /\ [](/\ tx.sent = tx.recvd + Len(tx.buf)
          /\ \A i \in 1..Len(tx.buf) : tx.buf[i].id = tx.recvd + i)
    /\ [][/\ \A t \in Procs \cup HBs :
                hist'.last_id[t] # hist.last_id[t]
                    => /\ hist'.last_id[t] = tx.sent + 1
                       /\ tx'.buf = Append(tx.buf,
                              [Outbound(op[t], arg[t]) EXCEPT !.id = tx.sent + 1])
          /\ tx'.sent # tx.sent
                => \E t \in Procs \cup HBs : hist'.last_id[t] = tx'.sent
          /\ tx'.recvd # tx.recvd
                => /\ tx'.recvd = tx.recvd + 1
                   /\ Head(tx.buf).id = tx'.recvd
                   /\ tx'.buf = Tail(tx.buf)]_vars

\* C8 witness: the consumer has dequeued the Ping of the heartbeat task
\* and packets of both callers, three packets in all
C8_Witness ==
    /\ tx.recvd = 3
    /\ hb["h1"].pings = 1
    /\ hist.last_id["p1"] > 0 /\ hist.last_id["p2"] > 0
    /\ hist.last_id["h1"] = 2

\* C9: the connection type never goes back from WebSocket to Http; when
\* upgrade_to_websocket returns the type is WebSocket, and a call on a
\* socket that is already WebSocket changes nothing of the socket; a read
\* returns the type stored at the moment it reads, so once the type is
\* WebSocket is_ws returns true and is_http returns false.
C9_Upgrade ==
    /\ [][conn = "WebSocket" => conn' = "WebSocket"]_vars
    /\ [][\A p \in Procs :
            /\ Returned(p, "upgrade_to_websocket")
                  => /\ conn' = "WebSocket"
                     /\ result'[p] = Ret("Return", "Unit")
                     /\ conn = "WebSocket"
                           => UNCHANGED <<conn, tx, rx, pong_tx, pong_rx, hb, hist>>
            /\ Returned(p, "is_ws")
                  => /\ result'[p] = Ret("Return", Bool(conn = "WebSocket"))
                     /\ conn' = conn
            /\ Returned(p, "is_http")
                  => /\ result'[p] = Ret("Return", Bool(conn # "WebSocket"))
                     /\ conn' = conn]_vars

\* C9 witness: one caller's upgrade_to_websocket has returned, and the
\* is_ws the other caller issued after an earlier call has answered true
C9_Witness ==
    /\ conn = "WebSocket"
    /\ ops >= 3
    /\ \E p, q \in Procs :
          /\ p # q
          /\ pc[q] = "idle" /\ op[q] = "upgrade_to_websocket"
          /\ result[q] = Ret("Return", "Unit")
          /\ pc[p] = "idle" /\ op[p] = "is_ws"
          /\ result[p] = Ret("Return", "true")

\* C10: at most one heartbeat task runs at a time and the running task owns
\* pong_rx; a spawn_heartbeat that finds pong_rx owned panics, leaving the
\* queue, the pong slot, the lock and the running task as they were; a task
\* that panicked has sent no Ping and consumed no pong signal.
C10_OneHeartbeat ==
    /\ [](/\ Cardinality({h \in HBs : Running(h)}) <= 1
          /\ \A h \in HBs :
                /\ Running(h) => pong_rx = h
                /\ pc[h] = "panicked"
                      => /\ result[h].flow = "Panic"
                         /\ hb[h].pings = 0 /\ hb[h].pongs = 0
                         /\ hist.last_id[h] = 0)
    /\ [][\A h \in HBs :
            pc[h] = "idle" /\ pc'[h] # "idle" /\ pong_rx # "none"
                => /\ pc'[h] = "panicked"
                   /\ result'[h].flow = "Panic"
                   /\ UNCHANGED <<conn, tx, rx, pong_tx, pong_rx, hb>>
                   /\ \A g \in HBs \ {h} :
                         pc'[g] = pc[g] /\ result'[g] = result[g]]_vars

\* C10 witness: h2 panicked in spawn_heartbeat while h1, which had sent a
\* Ping and received a pong signal, goes on running
C10_Witness ==
    /\ pc["h2"] = "panicked"
    /\ Running("h1") /\ pong_rx = "h1"
    /\ hb["h1"].pings >= 1 /\ hb["h1"].pongs >= 1

\* C11: the dispatch of a Close enqueues one Noop at the tail of the queue
\* and nothing else and returns Break(Ok); on a closed queue it enqueues
\* nothing and returns Break with the send error; it never returns Continue
\* and touches nothing but the queue.
C11_CloseDispatch ==
    [][\A p \in Procs :
          /\ pc[p] = "call" /\ op[p] = "handle_packet"
          /\ arg[p].kind = "Close" /\ pc'[p] # "call"
          => /\ pc'[p] = "idle"
             /\ result'[p].flow = "Break"
             /\ IF tx.closed
                THEN tx' = tx /\ result'[p] = Ret("Break", "Closed")
                ELSE /\ result'[p] = Ret("Break", "Ok")
                     /\ tx' = [tx EXCEPT
                                 !.buf = Append(@, [Packet("Noop", "")
                                                      EXCEPT !.id = tx.sent + 1]),
                                 !.sent = @ + 1]
             /\ UNCHANGED <<conn, rx, pong_tx, pong_rx, hb>>
             /\ hist'.handled = hist.handled]_vars

\* C11 witness: one Close dispatch returned Break(Ok) and its Noop is the
\* only packet of the queue, then the receiver was closed and the other
\* Close dispatch returned Break with the send error
C11_Witness ==
    /\ ops = 2
    /\ op["p1"] = "handle_packet" /\ pc["p1"] = "idle"
    /\ result["p1"] = Ret("Break", "Ok")
    /\ op["p2"] = "handle_packet" /\ pc["p2"] = "idle"
    /\ result["p2"] = Ret("Break", "Closed")
    /\ tx.closed /\ tx.sent = 1 /\ tx.recvd = 0
    /\ tx.buf[1].kind = "Noop"

\* C12: with no Pong ever dispatched a heartbeat task never sends a third
\* Ping: the Pings it has enqueued stay below three, also once it has failed.
C12_NoThirdPing ==
    \A h \in HBs : hb[h].pings < 3

\* C12 witness: started on an empty queue the task enqueued one Ping, the
\* consumer dequeued it, no pong signal came and the task failed
C12_Witness ==
    /\ pc["h1"] = "done"
    /\ result["h1"] = HeartbeatTimeout
    /\ hb["h1"].pings = 1 /\ hb["h1"].pongs = 0
    /\ tx.sent = 1 /\ tx.recvd = 1
    /\ hist.last_id["h1"] = 1

\* C13: the dispatch of Message(payload) invokes the handler once and
\* returns Continue with the handler's result, Ok or the application error,
\* never Break; the queue, the pong slot, the locks, the connection type and
\* the heartbeat are as before the call.
C13_MessageDispatch ==
    [][\A p \in Procs :
          /\ pc[p] = "call" /\ op[p] = "handle_packet"
          /\ arg[p].kind = "Message" /\ pc'[p] # "call"
          => /\ pc'[p] = "idle"
             /\ result'[p] = Ret("Continue", Handle(arg[p].data))
             /\ result'[p].val \in HandlerResults
             /\ hist'.handled = hist.handled + 1
             /\ UNCHANGED <<conn, tx, rx, pong_tx, pong_rx, hb>>]_vars

\* C13 witness: the handler answered a Message with an application error,
\* the dispatch returned Continue(Err), and the emit of the other task has
\* enqueued its message on the open queue
C13_Witness ==
    /\ hist.handled = 1
    /\ result["p2"] = Ret("Continue", "AppError")
    /\ op["p2"] = "handle_packet" /\ pc["p2"] = "idle"
    /\ op["p1"] = "emit" /\ pc["p1"] = "idle" /\ result["p1"] = Ok
    /\ hist.last_id["p1"] = 1 /\ ~tx.closed
    /\ ops = 2

\* C17: the dispatch of a packet of any kind other than Close, Pong and
\* Message returns Continue(Err(BadPacket)) and changes nothing of the
\* socket: the queue, the pong slot, the locks, the connection type and the
\* heartbeat are unchanged and the handler is not invoked.
C17_BadPacket ==
    [][\A p \in Procs :
          /\ pc[p] = "call" /\ op[p] = "handle_packet"
          /\ arg[p].kind \notin {"Close", "Pong", "Message"} /\ pc'[p] # "call"
          => /\ pc'[p] = "idle"
             /\ result'[p] = Ret("Continue", "BadPacket")
             /\ UNCHANGED <<conn, tx, rx, pong_tx, pong_rx, hb>>
             /\ hist'.handled = hist.handled]_vars

\* C17 witness: three dispatches, of a Ping, a Noop or a Binary each, have
\* returned Continue(Err(BadPacket)) and the socket is as it was constructed
C17_Witness ==
    /\ ops = 3
    /\ \A p \in Procs :
          /\ op[p] = "handle_packet" /\ pc[p] = "idle"
          /\ result[p] = Ret("Continue", "BadPacket")
    /\ tx = NewChan /\ pong_tx = NewChan /\ rx = NewLock
    /\ hist.handled = 0

SendingFns == {"send", "emit", "emit_binary", "close", "send_blocking"}

\* C14: once the receiver of the queue is closed it stays closed and no
\* packet is added; every call of send, emit, emit_binary, close and
\* send_blocking polled on the closed queue returns the closed-channel error
\* at once, also when the queue is full, and a send that was suspended when
\* the receiver was closed is woken and returns that error.
C14_ClosedQueue ==
    /\ [][tx.closed => tx'.closed /\ tx'.sent = tx.sent]_vars
    /\ [][\A p \in Procs :
            /\ tx.closed /\ op[p] \in SendingFns
            /\ pc[p] \in {"call", "send_wait"} /\ pc'[p] # pc[p]
            => /\ pc'[p] = "idle"
               /\ result'[p] = Ret("Return", "Closed")
               /\ tx'.buf = tx.buf
               /\ rx' = rx]_vars
    /\ [](\A p \in Procs :
            tx.closed /\ pc[p] = "send_wait" => ENABLED send_wake(p))

\* C14 witness: on the full queue one task's emit was suspended, the
\* receiver was closed, the emit was woken with the error and the close
\* call of the other task failed at once; the queue still holds 100 packets
C14_Witness ==
    /\ tx.closed
    /\ Len(tx.buf) = QueueCap /\ tx.sent = QueueCap
    /\ hist.parked["p1"] = 0
    /\ op["p1"] = "emit" /\ pc["p1"] = "idle"
    /\ result["p1"] = Ret("Return", "Closed")
    /\ op["p2"] = "close" /\ pc["p2"] = "idle"
    /\ result["p2"] = Ret("Return", "Closed")
    /\ hist.parked["p2"] < 0

\* C15: when the Ping send of a round fails because the receiver of the
\* queue is closed, the heartbeat task returns HeartbeatTimeout in that
\* step, not the send error, without enqueuing a Ping or touching the pong
\* slot; a task that has returned stays stopped: it sends no Ping and
\* consumes no pong signal afterwards.
C15_PingSendFails ==
    /\ [][\A h \in HBs :
            /\ tx.closed /\ pc[h] \in {"tick", "send_wait"} /\ pc'[h] # pc[h]
            => /\ pc'[h] = "done"
               /\ result'[h] = HeartbeatTimeout
               /\ hb'[h].pings = hb[h].pings
               /\ tx'.sent = tx.sent
               /\ pong_tx' = pong_tx
               /\ pong_rx' = "none"]_vars
    /\ [][\A h \in HBs :
            pc[h] = "done"
            => /\ pc'[h] = "done" /\ result'[h] = result[h]
               /\ hb'[h].pings = hb[h].pings
               /\ hb'[h].pongs = hb[h].pongs]_vars

\* C15 witness: the first round was answered by a pong signal, then the
\* receiver was closed and the Ping send of the second round failed: the
\* task returned HeartbeatTimeout with no pong wait unanswered
C15_Witness ==
    /\ tx.closed
    /\ pc["h1"] = "done" /\ result["h1"] = HeartbeatTimeout
    /\ hb["h1"].pings = 1 /\ hb["h1"].pongs = 1
    /\ tx.sent = 1

\* C16 as stated: a round in which a Pong was dispatched while the
\* heartbeat task was waiting, its deadline still ahead, does not fail; a
\* wait that finds a signal consumes exactly one and the task goes back to
\* the interval, where the next Ping is sent when the tick is due.
C16_PongSatisfiesWait ==
    /\ [][\A h \in HBs :
            pc[h] = "recv" /\ pc'[h] = "done" => ~hist.live]_vars
    /\ [][\A h \in HBs :
            pc[h] = "recv" /\ pong_tx.buf # <<>> /\ pc'[h] # "recv"
            => /\ pc'[h] = "tick"
               /\ hb'[h].pongs = hb[h].pongs + 1
               /\ pong_tx'.recvd = pong_tx.recvd + 1]_vars
    /\ [][\A h \in HBs :
            pc[h] = "tick" /\ hb'[h].pings = hb[h].pings + 1
            => hb[h].tick <= 0]_vars

\* C19 as stated: the pong signal that satisfies the wait of a round comes
\* from a Pong dispatched after the Ping of that round was enqueued
\* (signals enter the slot in the order of their dispatches, so the id of a
\* signal is the number of its dispatch).
C19_FreshPongOnly ==
    [][\A h \in HBs :
          pc[h] = "recv" /\ pc'[h] = "tick"
              => Head(pong_tx.buf).id > hist.mark]_vars

\* C20: the Pings a heartbeat task has enqueued are at most the pong
\* signals it has consumed plus one, and they are one more exactly while
\* the task waits for the pong of its last Ping or has failed in that wait.
C20_OnePingOutstanding ==
    \A h \in HBs :
        /\ hb[h].pings <= hb[h].pongs + 1
        /\ hb[h].pongs <= hb[h].pings
        /\ pc[h] \in {"sleep", "tick", "send_wait"} => hb[h].pings = hb[h].pongs
        /\ pc[h] = "recv" => hb[h].pings = hb[h].pongs + 1

\* C20 witness: the task waits for the pong of its second Ping after the
\* first was answered, both Pings dequeued by the consumer
C20_Witness ==
    /\ pc["h1"] = "recv"
    /\ hb["h1"].pings = 2 /\ hb["h1"].pongs = 1
    /\ tx.recvd = 2 /\ tx.sent = 2
    /\ hb["h1"].timer > 0

\* C18 as stated: with a concurrent upgrade_to_websocket, after which the
\* writer task holds the consumer lock for good and drains the queue, every
\* send_blocking call eventually returns.
C18_BarrierReturns ==
    \A p \in Procs :
        (op[p] = "send_blocking" /\ pc[p] = "call") ~> (pc[p] = "idle")

====
